---- MODULE Spec2Model ----
(***************************************************************************)
(* Identity reconciliation: ContactService.identifyContact driving the     *)
(* ContactLinkingEngine over a ContactRepository.  Every repository call   *)
(* (an await in the source) is one atomic step of a call; the synchronous  *)
(* code between two awaits belongs to the step that precedes it.           *)
(***************************************************************************)
EXTENDS Integers, Sequences, FiniteSets, TLC

VARIABLES
    store,      \* the Contact table: sequence of rows, row i has id i
    now,        \* the database / process clock (milliseconds, abstracted)
    cache,      \* cacheService.contactCache: cache key -> IdentifyResponse
    calls,      \* per request handler: position and locals of identifyContact
    memory,     \* one MemoryCache: its Map, its stats and what it did last
    manager     \* the GracefulShutdownManager and the process it shuts down

vars == <<store, now, cache, calls, memory, manager>>

----------------------------------------------------------------------------
(* Bounds *)

MaxRecords == 4
NumEmails == 2
NumPhones == 2
NumHandlers == 2
MaxTies == 1        \* inserts that may fall into the millisecond of the previous one

Emails == {"e" \o ToString(i) : i \in 1..NumEmails}
Phones == {"p" \o ToString(i) : i \in 1..NumPhones}

----------------------------------------------------------------------------
(* Values *)

NULL == "null"              \* SQL NULL / JS null in a column
UNDEFINED == "undefined"    \* a request field that was not supplied
EMPTY == ""                 \* the empty string, falsy in JS
NoId == 0                   \* linkedId null
NoTime == 0                 \* deletedAt null

PRIMARY == "primary"
SECONDARY == "secondary"

CREATE_NEW_PRIMARY == "CREATE_NEW_PRIMARY"
RETURN_EXISTING == "RETURN_EXISTING"
CREATE_SECONDARY == "CREATE_SECONDARY"
LINK_EXISTING_PRIMARIES == "LINK_EXISTING_PRIMARIES"
NO_STRATEGY == "none"

\* JS truthiness of an optional string
Truthy(v) == v \notin {NULL, UNDEFINED, EMPTY}

EmailInputs == Emails \cup {UNDEFINED, EMPTY}
PhoneInputs == Phones \cup {UNDEFINED, EMPTY}
\* the request bodies tried: every combination of supplied and absent values,
\* and the empty string where it makes the request invalid
Requests ==
    {r \in [email : EmailInputs, phoneNumber : PhoneInputs] :
        EMPTY \in {r.email, r.phoneNumber} =>
            r.email \notin Emails /\ r.phoneNumber \notin Phones}

NoContact ==
    [id |-> 0, email |-> NULL, phoneNumber |-> NULL, linkedId |-> NoId,
     linkPrecedence |-> PRIMARY, createdAt |-> 0, updatedAt |-> 0,
     deletedAt |-> NoTime]

NoResponse ==
    [primaryContactId |-> 0, emails |-> <<>>, phoneNumbers |-> <<>>,
     secondaryContactIds |-> <<>>]

----------------------------------------------------------------------------
(* Sequence helpers *)

Range(s) == {s[i] : i \in DOMAIN s}

RECURSIVE SelectPrecedence(_, _)
SelectPrecedence(s, prec) ==
    IF s = <<>> THEN <<>>
    ELSE IF Head(s).linkPrecedence = prec
         THEN <<Head(s)>> \o SelectPrecedence(Tail(s), prec)
         ELSE SelectPrecedence(Tail(s), prec)

\* ORDER BY createdAt ASC: all orders in which the query may return the rows
\* in S; rows of the same millisecond come in an order the database does not
\* define
RECURSIVE OrderedByCreatedAt(_)
OrderedByCreatedAt(S) ==
    IF S = {} THEN {<<>>}
    ELSE UNION {{<<m>> \o rest : rest \in OrderedByCreatedAt(S \ {m})} :
                   m \in {x \in S : \A y \in S : x.createdAt <= y.createdAt}}

Rows(st) == {st[i] : i \in DOMAIN st}

----------------------------------------------------------------------------
(* PrismaContactRepository *)

\* findByEmailOrPhoneNumber: WHERE (email = ? OR phoneNumber = ?) AND
\* deletedAt IS NULL ORDER BY createdAt ASC
MatchingRows(st, email, phoneNumber) ==
    {c \in Rows(st) :
        /\ c.deletedAt = NoTime
        /\ \/ (Truthy(email) /\ c.email = email)
           \/ (Truthy(phoneNumber) /\ c.phoneNumber = phoneNumber)}

findByEmailOrPhoneNumber(st, email, phoneNumber) ==
    IF ~Truthy(email) /\ ~Truthy(phoneNumber) THEN {<<>>}
    ELSE OrderedByCreatedAt(MatchingRows(st, email, phoneNumber))

\* findLinkedContacts: WHERE (id = ? OR linkedId = ?) AND deletedAt IS NULL
\* ORDER BY linkPrecedence ASC, createdAt ASC
LinkedRows(st, primaryId) ==
    {c \in Rows(st) :
        /\ c.deletedAt = NoTime
        /\ (c.id = primaryId \/ c.linkedId = primaryId)}

\* the enum sorts 'primary' before 'secondary'
findLinkedContacts(st, primaryId) ==
    LET linked == LinkedRows(st, primaryId)
    IN {primaries \o secondaries :
          primaries \in OrderedByCreatedAt(
                           {c \in linked : c.linkPrecedence = PRIMARY}),
          secondaries \in OrderedByCreatedAt(
                           {c \in linked : c.linkPrecedence = SECONDARY})}

\* mutant: stores the empty string for a field the request leaves out
NewRowEmptyForAbsent(st, data, t) ==
    [id |-> Len(st) + 1,
     email |-> IF Truthy(data.email) THEN data.email ELSE EMPTY,
     phoneNumber |-> IF Truthy(data.phoneNumber) THEN data.phoneNumber ELSE EMPTY,
     linkedId |-> data.linkedId,
     linkPrecedence |-> data.linkPrecedence,
     createdAt |-> t, updatedAt |-> t, deletedAt |-> NoTime]

\* create: INSERT; the database assigns id, createdAt and updatedAt
NewRow(st, data, t) ==
    [id |-> Len(st) + 1,
     email |-> IF Truthy(data.email) THEN data.email ELSE NULL,
     phoneNumber |-> IF Truthy(data.phoneNumber) THEN data.phoneNumber ELSE NULL,
     linkedId |-> data.linkedId,
     linkPrecedence |-> data.linkPrecedence,
     createdAt |-> t, updatedAt |-> t, deletedAt |-> NoTime]

create(st, data, t) == Append(st, NewRow(st, data, t))

\* mutant: the UPDATE stamps createdAt as well as updatedAt
updateStampsCreatedAt(st, id, linkedId, linkPrecedence, t) ==
    [st EXCEPT ![id] = [@ EXCEPT !.linkedId = linkedId,
                                 !.linkPrecedence = linkPrecedence,
                                 !.createdAt = t,
                                 !.updatedAt = t]]

\* update: UPDATE ... SET linkedId, linkPrecedence, updatedAt WHERE id = ?
update(st, id, linkedId, linkPrecedence, t) ==
    [st EXCEPT ![id] = [@ EXCEPT !.linkedId = linkedId,
                                 !.linkPrecedence = linkPrecedence,
                                 !.updatedAt = t]]

\* findUnique({where: {id}})
findUnique(st, id) == IF id \in DOMAIN st THEN st[id] ELSE NoContact

----------------------------------------------------------------------------
(* ContactLinkingEngine: pure parts *)

\* mutant: compares the columns with the request fields as they are, so an
\* absent field never equals a null column
ExactlyMatchesStrict(contact, request) ==
    /\ contact.email = request.email
    /\ contact.phoneNumber = request.phoneNumber

\* mutant: a field the request leaves out matches any column
ExactlyMatchesAbsentAny(contact, request) ==
    LET emailMatch == Truthy(request.email) => contact.email = request.email
        phoneMatch == Truthy(request.phoneNumber) =>
                          contact.phoneNumber = request.phoneNumber
    IN emailMatch /\ phoneMatch

ExactlyMatches(contact, request) ==
    LET emailMatch == IF Truthy(request.email)
                      THEN contact.email = request.email
                      ELSE ~Truthy(contact.email)
        phoneMatch == IF Truthy(request.phoneNumber)
                      THEN contact.phoneNumber = request.phoneNumber
                      ELSE ~Truthy(contact.phoneNumber)
    IN emailMatch /\ phoneMatch

\* findExactMatch: the first candidate that matches, or NoContact (null)
RECURSIVE findExactMatch(_, _)
findExactMatch(existingContacts, request) ==
    IF existingContacts = <<>> THEN NoContact
    ELSE IF ExactlyMatches(Head(existingContacts), request)
         THEN Head(existingContacts)
         ELSE findExactMatch(Tail(existingContacts), request)

\* mutant: counts the primaries before it looks for an exact match
determineContactStrategyLinkFirst(existingContacts, request) ==
    IF Len(existingContacts) = 0 THEN CREATE_NEW_PRIMARY
    ELSE IF Len(SelectPrecedence(existingContacts, PRIMARY)) > 1
         THEN LINK_EXISTING_PRIMARIES
    ELSE IF findExactMatch(existingContacts, request) # NoContact
         THEN RETURN_EXISTING
    ELSE CREATE_SECONDARY

determineContactStrategy(existingContacts, request) ==
    IF Len(existingContacts) = 0 THEN CREATE_NEW_PRIMARY
    ELSE IF findExactMatch(existingContacts, request) # NoContact
         THEN RETURN_EXISTING
    ELSE IF Len(SelectPrecedence(existingContacts, PRIMARY)) > 1
         THEN LINK_EXISTING_PRIMARIES
    ELSE CREATE_SECONDARY

\* mutant: the comparator the other way round, (a, b) => b - a
RECURSIVE InsertByCreatedAtDesc(_, _)
InsertByCreatedAtDesc(sorted, c) ==
    IF sorted = <<>> THEN <<c>>
    ELSE IF Head(sorted).createdAt >= c.createdAt
         THEN <<Head(sorted)>> \o InsertByCreatedAtDesc(Tail(sorted), c)
         ELSE <<c>> \o sorted

\* Array.prototype.sort with (a, b) => a.createdAt - b.createdAt: stable
RECURSIVE InsertByCreatedAt(_, _)
InsertByCreatedAt(sorted, c) ==
    IF sorted = <<>> THEN <<c>>
    ELSE IF Head(sorted).createdAt <= c.createdAt
         THEN <<Head(sorted)>> \o InsertByCreatedAt(Tail(sorted), c)
         ELSE <<c>> \o sorted

RECURSIVE SortByCreatedAt(_)
SortByCreatedAt(s) ==
    IF s = <<>> THEN <<>>
    ELSE InsertByCreatedAt(SortByCreatedAt(SubSeq(s, 1, Len(s) - 1)), s[Len(s)])

\* linkExistingPrimaries, lines 189-207: the primaries of the candidate list,
\* oldest first; the head survives, the tail is converted
SortedPrimaries(existingContacts) ==
    SortByCreatedAt(SelectPrecedence(existingContacts, PRIMARY))

\* findPrimaryFromContacts, lines 303-309: a primary in the list, if any
PrimaryInList(contacts) ==
    LET ps == SelectPrecedence(contacts, PRIMARY)
    IN IF ps = <<>> THEN NoContact ELSE Head(ps)

----------------------------------------------------------------------------
(* ContactService: response formatting and cache key *)

\* the loop of extractUniqueEmails / extractUniquePhoneNumbers over one column
RECURSIVE AppendUnique(_, _, _)
AppendUnique(acc, contacts, field) ==
    IF contacts = <<>> THEN acc
    ELSE LET v == Head(contacts)[field]
         IN IF Truthy(v) /\ v \notin Range(acc)
            THEN AppendUnique(Append(acc, v), Tail(contacts), field)
            ELSE AppendUnique(acc, Tail(contacts), field)

extractUniqueEmails(allContacts, primaryContact) ==
    AppendUnique(IF Truthy(primaryContact.email)
                 THEN <<primaryContact.email>> ELSE <<>>,
                 allContacts, "email")

extractUniquePhoneNumbers(allContacts, primaryContact) ==
    AppendUnique(IF Truthy(primaryContact.phoneNumber)
                 THEN <<primaryContact.phoneNumber>> ELSE <<>>,
                 allContacts, "phoneNumber")

RECURSIVE SecondaryIds(_, _)
SecondaryIds(allContacts, primaryId) ==
    IF allContacts = <<>> THEN <<>>
    ELSE LET c == Head(allContacts)
         IN IF c.id # primaryId /\ c.linkPrecedence = SECONDARY
            THEN <<c.id>> \o SecondaryIds(Tail(allContacts), primaryId)
            ELSE SecondaryIds(Tail(allContacts), primaryId)

formatIdentifyResponse(primaryContact, allLinkedContacts) ==
    [primaryContactId |-> primaryContact.id,
     emails |-> extractUniqueEmails(allLinkedContacts, primaryContact),
     phoneNumbers |-> extractUniquePhoneNumbers(allLinkedContacts, primaryContact),
     secondaryContactIds |-> SecondaryIds(allLinkedContacts, primaryContact.id)]

\* String.prototype.toLowerCase, over the letters the inputs are made of
LowerCaseOf(ch) ==
    CASE ch = "E" -> "e"
      [] ch = "P" -> "p"
      [] OTHER -> ch

RECURSIVE toLowerCase(_)
toLowerCase(s) ==
    IF Len(s) = 0 THEN EMPTY
    ELSE LowerCaseOf(SubSeq(s, 1, 1)) \o toLowerCase(SubSeq(s, 2, Len(s)))

\* String.prototype.trim
RECURSIVE trim(_)
trim(s) ==
    IF Len(s) = 0 THEN EMPTY
    ELSE IF SubSeq(s, 1, 1) = " " THEN trim(SubSeq(s, 2, Len(s)))
    ELSE IF SubSeq(s, Len(s), Len(s)) = " " THEN trim(SubSeq(s, 1, Len(s) - 1))
    ELSE s

\* replace(/\s+/g, '')
RECURSIVE removeWhitespace(_)
removeWhitespace(s) ==
    IF Len(s) = 0 THEN EMPTY
    ELSE IF SubSeq(s, 1, 1) = " " THEN removeWhitespace(SubSeq(s, 2, Len(s)))
    ELSE SubSeq(s, 1, 1) \o removeWhitespace(SubSeq(s, 2, Len(s)))

\* generateCacheKey: the email lower-cased and trimmed, the phone without
\* whitespace; absent and empty fields both become ''
generateCacheKey(request) ==
    LET email == IF request.email \in {UNDEFINED, NULL} THEN EMPTY
                 ELSE trim(toLowerCase(request.email))
        phone == IF request.phoneNumber \in {UNDEFINED, NULL} THEN EMPTY
                 ELSE removeWhitespace(request.phoneNumber)
    IN "contact:identify:" \o email \o ":" \o phone

\* the keys identifyContact may cache a response under
CacheKeys ==
    {"contact:identify:" \o e \o ":" \o ph :
        e \in Emails \cup {EMPTY}, ph \in Phones \cup {EMPTY}}

\* requests whose email differs from a known one in case only
MixedCaseRequests == {[email |-> "E1", phoneNumber |-> UNDEFINED]}

----------------------------------------------------------------------------
(* Errors and the wrappers of error-utils *)

NoError == [name |-> "", message |-> ""]

\* String.prototype.includes
Includes(s, w) ==
    \E i \in 1..(Len(s) - Len(w) + 1) : SubSeq(s, i, i + Len(w) - 1) = w

\* the subclasses of AppError
AppErrors ==
    {"ValidationError", "ContactNotFoundError", "DatabaseError",
     "ContactLinkingError", "ConfigurationError", "RateLimitError",
     "TimeoutError", "PayloadTooLargeError", "ServiceUnavailableError",
     "UnauthorizedError", "ForbiddenError"}

\* errors a Prisma call may reject with
RepositoryErrors ==
    {[name |-> "Error", message |-> "Database connection failed"],
     [name |-> "PrismaClientKnownRequestError",
      message |-> "Unique constraint failed on the fields: (id)"],
     [name |-> "PrismaClientKnownRequestError",
      message |-> "Record to update not found."],
     [name |-> "PrismaClientUnknownRequestError",
      message |-> "Query engine exited"]}

\* handleDatabaseOperation, the catch block: every error of the operation is
\* replaced
handleDatabaseOperation(error, context) ==
    IF Includes(error.message, "Unique constraint")
    THEN [name |-> "DatabaseError", message |-> "Duplicate record found"]
    ELSE IF Includes(error.message, "Foreign key constraint")
    THEN [name |-> "DatabaseError", message |-> "Referenced record not found"]
    ELSE IF Includes(error.message, "connection")
            \/ Includes(error.message, "timeout")
    THEN [name |-> "ServiceUnavailableError",
          message |-> "Database connection unavailable"]
    ELSE IF Includes(error.message, "Record to update not found")
            \/ Includes(error.message, "Record to delete does not exist")
    THEN [name |-> "ContactNotFoundError",
          message |-> "Contact record not found"]
    ELSE [name |-> "DatabaseError",
          message |-> "Database operation failed: " \o context]

\* handleServiceOperation, the catch block: an AppError is rethrown, any
\* other error is replaced
handleServiceOperation(error, context) ==
    IF error.name \in AppErrors THEN error
    ELSE IF Includes(error.message, "validation")
            \/ Includes(error.message, "invalid")
    THEN [name |-> "ValidationError",
          message |-> "Validation failed: " \o context]
    ELSE IF Includes(error.message, "linking")
            \/ Includes(error.message, "contact")
    THEN [name |-> "ContactLinkingError",
          message |-> "Contact linking failed: " \o context]
    ELSE [name |-> "ContactLinkingError",
          message |-> "Service operation failed: " \o context]

----------------------------------------------------------------------------
(* MemoryCache: the Map in insertion order, which is the order it iterates *)

MaxSize == 2        \* maxSize of the cache under test
DefaultTtl == 2     \* defaultTtl of the cache under test, in clock ticks

NumCacheKeys == 3
MaxClock == 2       \* the last reading of Date.now()
MaxCacheOps == 4    \* calls made on the cache under test

NoKey == ""         \* oldestKey = null
CacheKeyNames == {"k" \o ToString(i) : i \in 1..NumCacheKeys}
CacheData == {"v1", "v2"}
\* the ttl argument of set; 0 stands for a ttl left out (both are falsy)
TtlInputs == {0, 1}

\* new MemoryCache(defaultTtl, maxSize); the fields below `returned` record
\* what the cache did, for the properties
NewMemoryCache ==
    [cache |-> <<>>,
     stats |-> [hits |-> 0, misses |-> 0],
     returned |-> NULL,     \* what the last get returned
     ops |-> 0,             \* calls made so far
     used |-> [k \in CacheKeyNames |-> 0],
                            \* key -> the call that last set or returned it
     evicted |-> NoKey,     \* the key the last call evicted, if it was a set
     before |-> <<>>,       \* the Map as the last call found it
     usedBefore |-> [k \in CacheKeyNames |-> 0]]
                            \* `used` as the last call found it

\* position of key in the Map, 0 when the Map does not have it
IndexOfKey(m, key) ==
    IF \E i \in DOMAIN m : m[i].key = key
    THEN CHOOSE i \in DOMAIN m : m[i].key = key
    ELSE 0

\* Map.delete
MapDelete(m, key) == SelectSeq(m, LAMBDA e : e.key # key)

\* Map.set: a key the Map has keeps its place
MapSet(m, entry) ==
    IF IndexOfKey(m, entry.key) # 0
    THEN [m EXCEPT ![IndexOfKey(m, entry.key)] = entry]
    ELSE Append(m, entry)

\* the test of get and cleanup for an entry whose ttl has run out
Expired(entry, t) == t - entry.timestamp > entry.ttl

\* the loop of evictLeastRecentlyUsed from entry i on
RECURSIVE OldestKey(_, _, _, _)
OldestKey(m, i, oldestKey, oldestTime) ==
    IF i > Len(m) THEN oldestKey
    ELSE IF m[i].timestamp < oldestTime
         THEN OldestKey(m, i + 1, m[i].key, m[i].timestamp)
         ELSE OldestKey(m, i + 1, oldestKey, oldestTime)

\* evictLeastRecentlyUsed at Date.now() = t
evictLeastRecentlyUsed(m, t) ==
    LET oldestKey == OldestKey(m, 1, NoKey, t)
    IN IF oldestKey # NoKey THEN MapDelete(m, oldestKey) ELSE m

\* cleanup at Date.now() = t
cleanup(m, t) == SelectSeq(m, LAMBDA e : ~Expired(e, t))

----------------------------------------------------------------------------
(* GracefulShutdownManager *)

NumCleanups == 2    \* cleanup functions registered with addCleanupFunction
MaxSignals == 3     \* signals and uncaught errors the process receives

NoExit == -1        \* the process is running
Signals == {"SIGTERM", "SIGINT", "uncaughtException", "unhandledRejection"}

\* the manager of startServer once setServer, initialize and
\* addCleanupFunction have run, and the process around it
NewManager ==
    [isShuttingDown |-> FALSE,
     pc |-> "running",          \* where handleShutdown is waiting
     server |-> "listening",    \* listening, closing, closed, failed
     gracefulTimer |-> FALSE,   \* the timeout of stopServer is armed
     forceTimer |-> FALSE,      \* forceExitTimer is armed
     cleanups |-> [i \in 1..NumCleanups |-> "idle"],
                                \* idle, running, done, failed
     db |-> "connected",        \* connected, disconnecting, disconnected,
                                \* failed
     exitCode |-> NoExit,
     signal |-> "",             \* the signal that started the shutdown
     received |-> 0,            \* signals received
     sequences |-> 0]           \* shutdown sequences started

\* process.exit(code): nothing of the process runs after it
Exit(m, code) ==
    [m EXCEPT !.pc = "exited", !.exitCode = code,
              !.gracefulTimer = FALSE, !.forceTimer = FALSE]

\* runCleanupFunctions has every function settled: Promise.allSettled gives
\* way and handleShutdown goes on to call disconnectDatabase
AllSettled(m) ==
    IF \A i \in DOMAIN m.cleanups : m.cleanups[i] \in {"done", "failed"}
    THEN [m EXCEPT !.pc = "disconnect", !.db = "disconnecting"]
    ELSE m

\* runCleanupFunctions, lines 150-161: map calls every function in turn
runCleanupFunctions(m) ==
    AllSettled([m EXCEPT !.pc = "cleanup",
                         !.cleanups = [i \in DOMAIN m.cleanups |-> "running"]])


----------------------------------------------------------------------------
(* One identifyContact call: its position and its locals *)

IdleCall ==
    [pc |-> "idle", request |-> [email |-> UNDEFINED, phoneNumber |-> UNDEFINED],
     pre |-> <<>>, existingContacts |-> <<>>, strategy |-> NO_STRATEGY,
     primaryContact |-> NoContact, newer |-> <<>>, secs |-> <<>>,
     fpI |-> 0, fpLinkedId |-> NoId,
     status |-> "none", error |-> "", response |-> NoResponse,
     n |-> 0,       \* calls begun, counted where a specification bounds them
     errorName |-> "",     \* the class of the error the call threw
     cause |-> NoError,    \* the error a repository call rejected with
     attempt |-> 0,        \* how many times the caller has re-run the call
     origin |-> <<>>,      \* the table before the first attempt of a re-run
     primaryId |-> NoId,   \* the arguments of linkContacts
     secondaryId |-> NoId]

Handlers == DOMAIN calls
Active == {p \in Handlers : calls[p].pc # "idle"}

\* the call returns: locals die, the outcome stays visible
Return(c, response) ==
    [c EXCEPT !.pc = "idle", !.status = "ok", !.response = response,
              !.newer = <<>>, !.secs = <<>>, !.fpI = 0, !.fpLinkedId = NoId]

\* the call throws the error e
ThrowError(c, e) ==
    [c EXCEPT !.pc = "idle", !.status = "error", !.error = e.message,
              !.errorName = e.name,
              !.newer = <<>>, !.secs = <<>>, !.fpI = 0, !.fpLinkedId = NoId]

\* throw new Error(error)
Throw(c, error) == ThrowError(c, [name |-> "Error", message |-> error])

\* findPrimaryFromContacts, lines 313-317: the next candidate from index i on
\* that is a secondary with a linkedId, 0 when the loop runs off the list
NextChainIndex(contacts, i) ==
    LET js == {j \in i..Len(contacts) :
                  /\ contacts[j].linkPrecedence = SECONDARY
                  /\ contacts[j].linkedId # NoId}
    IN IF js = {} THEN 0 ELSE CHOOSE j \in js : \A k \in js : j <= k

\* findPrimaryFromContacts returned `primary` to returnExisting / createSecondary
PrimaryFound(c, primary) ==
    [c EXCEPT !.primaryContact = primary,
              !.pc = IF c.strategy = RETURN_EXISTING THEN "linked" ELSE "create",
              !.fpI = 0, !.fpLinkedId = NoId]

\* findPrimaryFromContacts, the loop from candidate i on
ChainLoop(c, i) ==
    LET j == NextChainIndex(c.existingContacts, i)
    IN IF j = 0
       THEN Throw(c, "No primary contact found in the contact chain")
       ELSE [c EXCEPT !.pc = "fpContact", !.fpI = j, !.fpLinkedId = NoId]

\* executeStrategy up to its first repository call
Dispatch(c) ==
    CASE c.strategy = CREATE_NEW_PRIMARY -> [c EXCEPT !.pc = "create"]
      [] c.strategy \in {RETURN_EXISTING, CREATE_SECONDARY} ->
            IF PrimaryInList(c.existingContacts) # NoContact
            THEN PrimaryFound(c, PrimaryInList(c.existingContacts))
            ELSE ChainLoop(c, 1)
      [] c.strategy = LINK_EXISTING_PRIMARIES ->
            LET sorted == SortedPrimaries(c.existingContacts)
            IN [c EXCEPT !.primaryContact = Head(sorted),
                         !.newer = Tail(sorted),
                         !.pc = "convUpdate"]

\* linkExistingPrimaries, lines 210-212: on to the next newer primary, or to
\* the creation of the new secondary
NextConversion(c) ==
    IF Len(c.newer) > 1
    THEN [c EXCEPT !.newer = Tail(c.newer), !.secs = <<>>, !.pc = "convUpdate"]
    ELSE [c EXCEPT !.newer = <<>>, !.secs = <<>>, !.pc = "create"]

\* the clock readings an insert may get: the next millisecond, or (MaxTies
\* times at most) the millisecond of the previous insert
Ties(st) == Len(st) - Cardinality({st[i].createdAt : i \in DOMAIN st})
InsertTimes ==
    {now + 1} \cup (IF store # <<>> /\ Ties(store) < MaxTies THEN {now} ELSE {})

HasExactMatch(request) ==
    \E c \in MatchingRows(store, request.email, request.phoneNumber) :
        ExactlyMatches(c, request)

\* a call that may insert a row is admitted only while the table has room
Room(limit) == Len(store) + Cardinality(Active) < limit

Admitted(request, limit) ==
    Room(limit) \/ (Active = {} /\ HasExactMatch(request))

----------------------------------------------------------------------------
(* Steps of identifyContact *)

\* mutant: tests the fields against undefined instead of their truthiness
InvalidUndefinedOnly(request) ==
    request.email = UNDEFINED /\ request.phoneNumber = UNDEFINED

Invalid(request) == ~Truthy(request.email) /\ ~Truthy(request.phoneNumber)

\* identifyContact of the plain service (second ContactService), lines
\* 356-361: validation, then on to the candidate query
BeginIdentify(p, request, limit) ==
    /\ calls[p].pc = "idle"
    /\ LET c == [IdleCall EXCEPT !.request = request, !.pre = store]
       IN IF Invalid(request)
          THEN calls' = [calls EXCEPT ![p] =
                   Throw(c, "Either email or phoneNumber must be provided")]
          ELSE /\ Admitted(request, limit)
               /\ calls' = [calls EXCEPT ![p] = [c EXCEPT !.pc = "find"]]
    /\ UNCHANGED <<store, now, cache, memory, manager>>

\* MemoryCache.delete: a key the cache does not hold is left alone
MemoryCacheDelete(c, key) ==
    [k \in DOMAIN c |-> IF k = key THEN NoResponse ELSE c[k]]

\* CacheService.invalidateContactCaches on the contact cache
invalidateContactCaches(c, email, phoneNumber) ==
    LET afterEmail == IF Truthy(email)
                      THEN MemoryCacheDelete(c, "contact:email:" \o email)
                      ELSE c
    IN IF Truthy(phoneNumber)
       THEN MemoryCacheDelete(afterEmail, "contact:phone:" \o phoneNumber)
       ELSE afterEmail

\* the invalidateCache(['contact']) middleware when a POST /identify has
\* finished with a 2xx status
invalidateCache(c, request) ==
    IF Truthy(request.email) \/ Truthy(request.phoneNumber)
    THEN invalidateContactCaches(c, request.email, request.phoneNumber)
    ELSE c

\* identifyContact of the caching service (first ContactService), lines
\* 40-67: validation, then the cache lookup; MemoryCache.get drops an entry
\* whose ttl has run out and misses
BeginIdentifyCached(p, request, limit) ==
    /\ calls[p].pc = "idle"
    /\ LET c == [IdleCall EXCEPT !.request = request, !.pre = store,
                                !.n = calls[p].n + 1]
           cacheKey == generateCacheKey(request)
       IN IF Invalid(request)
          THEN /\ calls' = [calls EXCEPT ![p] =
                     ThrowError(c, handleServiceOperation(
                         [name |-> "ValidationError",
                          message |->
                            "Either email or phoneNumber must be provided"],
                         "identifyContact"))]
               /\ UNCHANGED cache
          ELSE \/ /\ cache[cacheKey] # NoResponse
                  /\ calls' = [calls EXCEPT ![p] = Return(c, cache[cacheKey])]
                  /\ cache' = invalidateCache(cache, request)
               \/ /\ Admitted(request, limit)
                  /\ cache' = [cache EXCEPT ![cacheKey] = NoResponse]
                  /\ calls' = [calls EXCEPT ![p] = [c EXCEPT !.pc = "find"]]
    /\ UNCHANGED <<store, now, memory, manager>>

\* identifyContact, lines 362-380: the candidate query, then classification
\* and executeStrategy up to its first await
FindCandidates(p) ==
    /\ calls[p].pc = "find"
    /\ \E existing \in findByEmailOrPhoneNumber(store, calls[p].request.email,
                                                calls[p].request.phoneNumber) :
         calls' = [calls EXCEPT ![p] =
            Dispatch([@ EXCEPT !.existingContacts = existing,
                               !.strategy = determineContactStrategy(
                                                existing, calls[p].request)])]
    /\ UNCHANGED <<store, now, cache, memory, manager>>

\* findPrimaryContact, lines 148-162: read the candidate secondary itself
ChainReadContact(p) ==
    /\ calls[p].pc = "fpContact"
    /\ LET c == calls[p]
           row == findUnique(store, c.existingContacts[c.fpI].id)
       IN calls' = [calls EXCEPT ![p] =
            IF row = NoContact \/ row.deletedAt # NoTime
            THEN ChainLoop(c, c.fpI + 1)
            ELSE IF row.linkPrecedence = PRIMARY
            THEN PrimaryFound(c, row)
            ELSE IF row.linkedId # NoId
            THEN [c EXCEPT !.pc = "fpLinked", !.fpLinkedId = row.linkedId]
            ELSE ChainLoop(c, c.fpI + 1)]
    /\ UNCHANGED <<store, now, cache, memory, manager>>

\* findPrimaryContact, lines 163-172: read the row its linkedId names
ChainReadLinked(p) ==
    /\ calls[p].pc = "fpLinked"
    /\ LET c == calls[p]
           row == findUnique(store, c.fpLinkedId)
       IN calls' = [calls EXCEPT ![p] =
            IF row # NoContact /\ row.deletedAt = NoTime
            THEN PrimaryFound(c, row)
            ELSE ChainLoop(c, c.fpI + 1)]
    /\ UNCHANGED <<store, now, cache, memory, manager>>

\* mutant: sets the link of the newer primary but not its precedence
ConvertUpdateLinkOnly(p) ==
    /\ calls[p].pc = "convUpdate"
    /\ store' = update(store, Head(calls[p].newer).id,
                       calls[p].primaryContact.id, PRIMARY, now)
    /\ calls' = [calls EXCEPT ![p].pc = "convFind"]
    /\ UNCHANGED <<now, cache, memory, manager>>

\* convertPrimaryToSecondary, lines 249-253: demote the newer primary
ConvertUpdate(p) ==
    /\ calls[p].pc = "convUpdate"
    /\ store' = update(store, Head(calls[p].newer).id,
                       calls[p].primaryContact.id, SECONDARY, now)
    /\ calls' = [calls EXCEPT ![p].pc = "convFind"]
    /\ UNCHANGED <<now, cache, memory, manager>>

\* mutant: leaves the secondaries of the converted primary where they are
ConvertFindSkipsSecondaries(p) ==
    /\ calls[p].pc = "convFind"
    /\ calls' = [calls EXCEPT ![p] = NextConversion(@)]
    /\ UNCHANGED <<store, now, cache, memory, manager>>

\* convertPrimaryToSecondary, lines 256-265: the rows linked to it
ConvertFind(p) ==
    /\ calls[p].pc = "convFind"
    /\ LET c == calls[p]
           converted == Head(c.newer).id
       IN \E linked \in findLinkedContacts(store, converted) :
            LET secondaries ==
                    SelectSeq(linked, LAMBDA x : x.linkPrecedence = SECONDARY
                                                 /\ x.id # converted)
            IN calls' = [calls EXCEPT ![p] =
                 IF secondaries = <<>> THEN NextConversion(c)
                 ELSE [c EXCEPT !.secs = secondaries, !.pc = "convSec"]]
    /\ UNCHANGED <<store, now, cache, memory, manager>>

\* mutant: re-points the secondary to the converted primary, not to the
\* surviving one
ConvertSecondaryToConverted(p) ==
    /\ calls[p].pc = "convSec"
    /\ LET c == calls[p]
       IN /\ store' = update(store, Head(c.secs).id, Head(c.newer).id,
                             SECONDARY, now)
          /\ calls' = [calls EXCEPT ![p] =
                IF Len(c.secs) > 1 THEN [c EXCEPT !.secs = Tail(c.secs)]
                ELSE NextConversion(c)]
    /\ UNCHANGED <<now, cache, memory, manager>>

\* convertPrimaryToSecondary, lines 267-273: re-point one of its secondaries
ConvertSecondary(p) ==
    /\ calls[p].pc = "convSec"
    /\ LET c == calls[p]
       IN /\ store' = update(store, Head(c.secs).id, c.primaryContact.id,
                             SECONDARY, now)
          /\ calls' = [calls EXCEPT ![p] =
                IF Len(c.secs) > 1 THEN [c EXCEPT !.secs = Tail(c.secs)]
                ELSE NextConversion(c)]
    /\ UNCHANGED <<now, cache, memory, manager>>

\* mutant: links the new secondary to the first candidate, whatever it is
ContactDataLinksCandidate(c) ==
    [email |-> c.request.email, phoneNumber |-> c.request.phoneNumber,
     linkedId |-> IF c.strategy = CREATE_NEW_PRIMARY THEN NoId
                  ELSE Head(c.existingContacts).id,
     linkPrecedence |-> IF c.strategy = CREATE_NEW_PRIMARY THEN PRIMARY
                        ELSE SECONDARY]

\* the row that createNewPrimary / createSecondary / linkExistingPrimaries
\* hands to repository.create
ContactData(c) ==
    [email |-> c.request.email, phoneNumber |-> c.request.phoneNumber,
     linkedId |-> IF c.strategy = CREATE_NEW_PRIMARY THEN NoId
                  ELSE c.primaryContact.id,
     linkPrecedence |-> IF c.strategy = CREATE_NEW_PRIMARY THEN PRIMARY
                        ELSE SECONDARY]

\* cacheContact(cacheKey, response) of the caching service, then the
\* invalidateCache middleware as the response is sent; the plain service has
\* no cache
Cached(svc, request, response) ==
    IF svc = "cached"
    THEN invalidateCache([cache EXCEPT ![generateCacheKey(request)] = response],
                         request)
    ELSE cache

\* repository.create; createNewPrimary returns right after it
CreateContact(p, svc) ==
    /\ calls[p].pc = "create"
    /\ \E t \in InsertTimes :
         LET c == calls[p]
             row == NewRow(store, ContactData(c), t)
             response == formatIdentifyResponse(row, <<row>>)
         IN /\ now' = t
            /\ store' = create(store, ContactData(c), t)
            /\ IF c.strategy = CREATE_NEW_PRIMARY
               THEN /\ calls' = [calls EXCEPT ![p] =
                          Return([c EXCEPT !.primaryContact = row], response)]
                    /\ cache' = Cached(svc, c.request, response)
               ELSE /\ calls' = [calls EXCEPT ![p].pc = "linked"]
                    /\ UNCHANGED cache
    /\ UNCHANGED <<memory, manager>>

\* the closing findLinkedContacts of returnExisting / createSecondary /
\* linkExistingPrimaries, then formatIdentifyResponse
ReturnLinked(p, svc) ==
    /\ calls[p].pc = "linked"
    /\ \E linked \in findLinkedContacts(store, calls[p].primaryContact.id) :
         LET response == formatIdentifyResponse(calls[p].primaryContact, linked)
         IN /\ calls' = [calls EXCEPT ![p] = Return(@, response)]
            /\ cache' = Cached(svc, calls[p].request, response)
    /\ UNCHANGED <<store, now, memory, manager>>

----------------------------------------------------------------------------
(* The plain service, one request handler: calls run one at a time *)

\* the positions at which a call is waiting for a repository call
AtRepositoryCall ==
    {"find", "fpContact", "fpLinked", "convUpdate", "convFind", "convSec",
     "create", "linked"}

TypeOK ==
    /\ \A i \in DOMAIN store :
          /\ store[i].id = i
          /\ store[i].linkPrecedence \in {PRIMARY, SECONDARY}
          /\ store[i].linkedId \in {NoId} \cup DOMAIN store
          /\ store[i].createdAt <= now
    /\ \A p \in Handlers :
          calls[p].pc \in AtRepositoryCall \cup {"idle", "lcFind", "lcUpdate"}

InitStore ==
    /\ store = <<>>
    /\ now = 0
    /\ cache = [k \in CacheKeys |-> NoResponse]
    /\ memory = NewMemoryCache
    /\ manager = NewManager

Init ==
    /\ InitStore
    /\ calls = [p \in {1} |-> IdleCall]

Identify ==
    \E p \in Handlers : \E request \in Requests :
        BeginIdentify(p, request, MaxRecords)
Find == \E p \in Handlers : FindCandidates(p)
ChainContact == \E p \in Handlers : ChainReadContact(p)
ChainLinked == \E p \in Handlers : ChainReadLinked(p)
Demote == \E p \in Handlers : ConvertUpdate(p)
DemoteFind == \E p \in Handlers : ConvertFind(p)
Repoint == \E p \in Handlers : ConvertSecondary(p)
Create == \E p \in Handlers : CreateContact(p, "plain")
Respond == \E p \in Handlers : ReturnLinked(p, "plain")

Next ==
    \/ Identify
    \/ Find
    \/ ChainContact
    \/ ChainLinked
    \/ Demote
    \/ DemoteFind
    \/ Repoint
    \/ Create
    \/ Respond

Spec == Init /\ [][Next]_vars

----------------------------------------------------------------------------
(* The plain service with failing repository calls *)

\* the awaited repository call rejects: the error leaves identifyContact
RepositoryFails(p) ==
    /\ calls[p].pc \in AtRepositoryCall
    /\ LET error == [name |-> "Error", message |-> "Database operation failed"]
       IN calls' = [calls EXCEPT ![p] =
             ThrowError([@ EXCEPT !.cause = error], error)]
    /\ UNCHANGED <<store, now, cache, memory, manager>>

StoreFailure == \E p \in Handlers : RepositoryFails(p)

FailNext ==
    \/ Identify
    \/ Find
    \/ ChainContact
    \/ ChainLinked
    \/ Demote
    \/ DemoteFind
    \/ Repoint
    \/ Create
    \/ Respond
    \/ StoreFailure

FailSpec == Init /\ [][FailNext]_vars

----------------------------------------------------------------------------
(* Concurrent request handlers on the plain service, one call each *)

\* the tables the handlers start on: the prefixes of a history of three calls
\* made one at a time, {email e1}, {email e2, phone p2}, {email e2, phone p1},
\* which leaves primary 1 alone and primary 2 with secondary 3
History ==
    <<[id |-> 1, email |-> "e1", phoneNumber |-> NULL, linkedId |-> NoId,
       linkPrecedence |-> PRIMARY, createdAt |-> 1, updatedAt |-> 1,
       deletedAt |-> NoTime],
      [id |-> 2, email |-> "e2", phoneNumber |-> "p2", linkedId |-> NoId,
       linkPrecedence |-> PRIMARY, createdAt |-> 2, updatedAt |-> 2,
       deletedAt |-> NoTime],
      [id |-> 3, email |-> "e2", phoneNumber |-> "p1", linkedId |-> 2,
       linkPrecedence |-> SECONDARY, createdAt |-> 3, updatedAt |-> 3,
       deletedAt |-> NoTime]>>

ConcInit ==
    /\ \E n \in 0..Len(History) :
          /\ store = SubSeq(History, 1, n)
          /\ now = n
    /\ cache = [k \in CacheKeys |-> NoResponse]
    /\ memory = NewMemoryCache
    /\ manager = NewManager
    /\ calls = [p \in 1..NumHandlers |-> IdleCall]

IdentifyOnce ==
    \E p \in Handlers : \E request \in Requests :
        /\ calls[p].status = "none"
        /\ BeginIdentify(p, request, MaxRecords)

ConcNext ==
    \/ IdentifyOnce
    \/ Find
    \/ ChainContact
    \/ ChainLinked
    \/ Demote
    \/ DemoteFind
    \/ Repoint
    \/ Create
    \/ Respond

ConcSpec == ConcInit /\ [][ConcNext]_vars

----------------------------------------------------------------------------
(* Concurrent request handlers that all carry the same observation, one call *)
(* each, with room in the table for one insert per handler                   *)

IdentifySame ==
    \E p \in Handlers : \E request \in Requests :
        /\ calls[p].status = "none"
        /\ \A q \in Handlers :
              calls[q].status # "none" \/ calls[q].pc # "idle"
                 => calls[q].request = request
        /\ BeginIdentify(p, request, Len(History) + NumHandlers)

SameNext ==
    \/ IdentifySame
    \/ Find
    \/ ChainContact
    \/ ChainLinked
    \/ Demote
    \/ DemoteFind
    \/ Repoint
    \/ Create
    \/ Respond

SameSpec == ConcInit /\ [][SameNext]_vars

----------------------------------------------------------------------------
(* The plain service with failing repository calls and a caller that re-runs *)
(* a failed call                                                             *)

MaxRetries == 2

\* the caller calls identifyContact again with the request of the call that
\* failed on a repository error
BeginRetry(p, limit) ==
    /\ calls[p].pc = "idle"
    /\ calls[p].status = "error"
    /\ calls[p].cause # NoError
    /\ calls[p].attempt < MaxRetries
    /\ Admitted(calls[p].request, limit)
    /\ calls' = [calls EXCEPT ![p] =
          [IdleCall EXCEPT !.request = calls[p].request,
                           !.pre = store,
                           !.pc = "find",
                           !.attempt = calls[p].attempt + 1,
                           !.origin = IF calls[p].attempt = 0
                                      THEN calls[p].pre
                                      ELSE calls[p].origin]]
    /\ UNCHANGED <<store, now, cache, memory, manager>>

RetryInit ==
    /\ store = History
    /\ now = Len(History)
    /\ cache = [k \in CacheKeys |-> NoResponse]
    /\ memory = NewMemoryCache
    /\ manager = NewManager
    /\ calls = [p \in {1} |-> IdleCall]

Retry == \E p \in Handlers : BeginRetry(p, MaxRecords)

RetryNext ==
    \/ Identify
    \/ Retry
    \/ Find
    \/ ChainContact
    \/ ChainLinked
    \/ Demote
    \/ DemoteFind
    \/ Repoint
    \/ Create
    \/ Respond
    \/ StoreFailure

RetrySpec == RetryInit /\ [][RetryNext]_vars

----------------------------------------------------------------------------
(* One call on a table that was filled directly (test fixtures, imports):   *)
(* ids and createdAt need not agree, values may repeat                      *)

MaxSeed == 3

\* fixture rows share one email and one phone, and are older or newer
SeedShapes(n) ==
    [email : {"e1", NULL}, phoneNumber : {"p1", NULL},
     createdAt : 1..2, linkedId : 0..n]

SeedRow(shape, i) ==
    [id |-> i, email |-> shape.email, phoneNumber |-> shape.phoneNumber,
     linkedId |-> shape.linkedId,
     linkPrecedence |-> IF shape.linkedId = NoId THEN PRIMARY ELSE SECONDARY,
     createdAt |-> shape.createdAt, updatedAt |-> shape.createdAt,
     deletedAt |-> NoTime]

\* rows carry a value; at most one row is a secondary, linked to a primary
SeedStores(n) ==
    {[i \in 1..n |-> SeedRow(shapes[i], i)] :
        shapes \in {sh \in [1..n -> SeedShapes(n)] :
            /\ \A i \in 1..n :
                /\ Truthy(sh[i].email) \/ Truthy(sh[i].phoneNumber)
                /\ sh[i].linkedId # NoId =>
                      /\ sh[i].linkedId # i
                      /\ sh[sh[i].linkedId].linkedId = NoId
            /\ Cardinality({i \in 1..n : sh[i].linkedId # NoId}) <= 1}}

SeedInit ==
    /\ \E n \in 1..MaxSeed :
          /\ store \in SeedStores(n)
          /\ now = 2
    /\ cache = [k \in CacheKeys |-> NoResponse]
    /\ memory = NewMemoryCache
    /\ manager = NewManager
    /\ calls = [p \in {1} |-> IdleCall]

SeedSpec == SeedInit /\ [][ConcNext]_vars

----------------------------------------------------------------------------
(* The caching service, calls one at a time *)

MaxCachedCalls == 3

CachedInit ==
    /\ \E n \in 0..Len(History) :
          /\ store = SubSeq(History, 1, n)
          /\ now = n
    /\ cache = [k \in CacheKeys |-> NoResponse]
    /\ memory = NewMemoryCache
    /\ manager = NewManager
    /\ calls = [p \in {1} |-> IdleCall]

IdentifyCached ==
    \E p \in Handlers : \E request \in Requests \cup MixedCaseRequests :
        /\ calls[p].n < MaxCachedCalls
        /\ BeginIdentifyCached(p, request, Len(History) + MaxCachedCalls)
CreateCached == \E p \in Handlers : CreateContact(p, "cached")
RespondCached == \E p \in Handlers : ReturnLinked(p, "cached")

CachedNext ==
    \/ IdentifyCached
    \/ Find
    \/ ChainContact
    \/ ChainLinked
    \/ Demote
    \/ DemoteFind
    \/ Repoint
    \/ CreateCached
    \/ RespondCached

CachedSpec == CachedInit /\ [][CachedNext]_vars

----------------------------------------------------------------------------
(* The caching service with failing repository calls *)

\* the awaited repository call rejects with error: the candidate query runs
\* inside handleDatabaseOperation, the calls of the engine do not, and the
\* whole of identifyContact runs inside handleServiceOperation
RepositoryFailsCached(p, error) ==
    /\ calls[p].pc \in AtRepositoryCall
    /\ LET thrown == IF calls[p].pc = "find"
                     THEN handleDatabaseOperation(error,
                                                  "findByEmailOrPhoneNumber")
                     ELSE error
       IN calls' = [calls EXCEPT ![p] =
             ThrowError([@ EXCEPT !.cause = error],
                        handleServiceOperation(thrown, "identifyContact"))]
    /\ UNCHANGED <<store, now, cache, memory, manager>>

StoreFailureCached ==
    \E p \in Handlers : \E error \in RepositoryErrors :
        RepositoryFailsCached(p, error)

CachedFailNext ==
    \/ IdentifyCached
    \/ Find
    \/ ChainContact
    \/ ChainLinked
    \/ Demote
    \/ DemoteFind
    \/ Repoint
    \/ CreateCached
    \/ RespondCached
    \/ StoreFailureCached

CachedFailSpec == CachedInit /\ [][CachedFailNext]_vars

----------------------------------------------------------------------------
(* The plain service, calls one at a time, on a table with a longer past *)

MaxLateInserts == 1

\* the table after five calls made one at a time, each in a millisecond of its
\* own: {phone p2}, {email e1}, {email e1, phone p1}, {email e2},
\* {email e2, phone p1}. Phone p1 came to primary 2 first (row 3); the last
\* call found primary 4 as the one Primary among its candidates, so row 5
\* carries p1 into the component of primary 4 as well.
LateHistory ==
    <<[id |-> 1, email |-> NULL, phoneNumber |-> "p2", linkedId |-> NoId,
       linkPrecedence |-> PRIMARY, createdAt |-> 1, updatedAt |-> 1,
       deletedAt |-> NoTime],
      [id |-> 2, email |-> "e1", phoneNumber |-> NULL, linkedId |-> NoId,
       linkPrecedence |-> PRIMARY, createdAt |-> 2, updatedAt |-> 2,
       deletedAt |-> NoTime],
      [id |-> 3, email |-> "e1", phoneNumber |-> "p1", linkedId |-> 2,
       linkPrecedence |-> SECONDARY, createdAt |-> 3, updatedAt |-> 3,
       deletedAt |-> NoTime],
      [id |-> 4, email |-> "e2", phoneNumber |-> NULL, linkedId |-> NoId,
       linkPrecedence |-> PRIMARY, createdAt |-> 4, updatedAt |-> 4,
       deletedAt |-> NoTime],
      [id |-> 5, email |-> "e2", phoneNumber |-> "p1", linkedId |-> 4,
       linkPrecedence |-> SECONDARY, createdAt |-> 5, updatedAt |-> 5,
       deletedAt |-> NoTime]>>

LateInit ==
    /\ store = LateHistory
    /\ now = Len(LateHistory)
    /\ cache = [k \in CacheKeys |-> NoResponse]
    /\ memory = NewMemoryCache
    /\ manager = NewManager
    /\ calls = [p \in {1} |-> IdleCall]

IdentifyLate ==
    \E p \in Handlers : \E request \in Requests :
        BeginIdentify(p, request, Len(LateHistory) + MaxLateInserts)

LateNext ==
    \/ IdentifyLate
    \/ Find
    \/ ChainContact
    \/ ChainLinked
    \/ Demote
    \/ DemoteFind
    \/ Repoint
    \/ Create
    \/ Respond

LateSpec == LateInit /\ [][LateNext]_vars

----------------------------------------------------------------------------
(* The plain service on a table with soft-deleted rows *)

\* the core never sets deletedAt; the column is set from outside it. The
\* tables here are History with any of its rows soft-deleted
SoftDeleted(st, D, t) ==
    [i \in DOMAIN st |-> IF i \in D THEN [st[i] EXCEPT !.deletedAt = t]
                         ELSE st[i]]

DeletedInit ==
    /\ \E D \in SUBSET DOMAIN History :
          store = SoftDeleted(History, D, Len(History))
    /\ now = Len(History)
    /\ cache = [k \in CacheKeys |-> NoResponse]
    /\ memory = NewMemoryCache
    /\ manager = NewManager
    /\ calls = [p \in {1} |-> IdleCall]

DeletedSpec == DeletedInit /\ [][Next]_vars

----------------------------------------------------------------------------
(* One MemoryCache and the clock it reads *)

\* what every call on the cache records first
Called(m) ==
    [m EXCEPT !.ops = @ + 1, !.evicted = NoKey, !.before = m.cache,
              !.usedBefore = m.used, !.returned = NULL]

\* MemoryCache.set
MemorySet(key, data, ttl) ==
    LET m == memory.cache
        full == Len(m) >= MaxSize
        kept == IF full THEN evictLeastRecentlyUsed(m, now) ELSE m
        entry == [key |-> key, data |-> data, timestamp |-> now,
                  ttl |-> IF ttl # 0 THEN ttl ELSE DefaultTtl, hits |-> 0]
    IN /\ memory.ops < MaxCacheOps
       /\ memory' = [Called(memory) EXCEPT
                        !.cache = MapSet(kept, entry),
                        !.evicted = IF full THEN OldestKey(m, 1, NoKey, now)
                                    ELSE NoKey,
                        !.used[key] = memory.ops + 1]
       /\ UNCHANGED <<store, now, cache, calls, manager>>

\* MemoryCache.get
MemoryGet(key) ==
    LET m == memory.cache
        i == IndexOfKey(m, key)
    IN /\ memory.ops < MaxCacheOps
       /\ memory' =
            IF i = 0
            THEN [Called(memory) EXCEPT !.stats.misses = @ + 1]
            ELSE IF Expired(m[i], now)
            THEN [Called(memory) EXCEPT !.cache = MapDelete(m, key),
                                        !.stats.misses = @ + 1]
            ELSE [Called(memory) EXCEPT !.cache[i].hits = @ + 1,
                                        !.stats.hits = @ + 1,
                                        !.returned = m[i].data,
                                        !.used[key] = memory.ops + 1]
       /\ UNCHANGED <<store, now, cache, calls, manager>>

\* MemoryCache.delete
MemoryDelete(key) ==
    /\ memory.ops < MaxCacheOps
    /\ memory' = [Called(memory) EXCEPT !.cache = MapDelete(memory.cache, key)]
    /\ UNCHANGED <<store, now, cache, calls, manager>>

\* MemoryCache.clear
MemoryClear ==
    /\ memory.ops < MaxCacheOps
    /\ memory' = [Called(memory) EXCEPT !.cache = <<>>,
                                        !.stats = [hits |-> 0, misses |-> 0]]
    /\ UNCHANGED <<store, now, cache, calls, manager>>

\* the setInterval callback of the constructor
MemoryCleanup ==
    /\ memory' = [memory EXCEPT !.cache = cleanup(memory.cache, now),
                                !.evicted = NoKey]
    /\ UNCHANGED <<store, now, cache, calls, manager>>

\* Date.now() moves on
ClockTick ==
    /\ now < MaxClock
    /\ now' = now + 1
    /\ UNCHANGED <<store, cache, calls, memory, manager>>

MemoryInit ==
    /\ store = <<>>
    /\ now = 0
    /\ cache = [k \in CacheKeys |-> NoResponse]
    /\ calls = [p \in {1} |-> IdleCall]
    /\ memory = NewMemoryCache
    /\ manager = NewManager

Set == \E key \in CacheKeyNames, data \in CacheData, ttl \in TtlInputs :
           MemorySet(key, data, ttl)
Get == \E key \in CacheKeyNames : MemoryGet(key)
Delete == \E key \in CacheKeyNames : MemoryDelete(key)

MemoryNext ==
    \/ Set
    \/ Get
    \/ Delete
    \/ MemoryClear
    \/ MemoryCleanup
    \/ ClockTick

MemorySpec == MemoryInit /\ [][MemoryNext]_vars

----------------------------------------------------------------------------
(* ContactService.linkContacts, calls one at a time *)

MaxLinks == 2

\* findById: the row, or null when it is missing or soft-deleted
findById(st, id) ==
    IF findUnique(st, id) = NoContact \/ findUnique(st, id).deletedAt # NoTime
    THEN NoContact
    ELSE findUnique(st, id)

\* linkContacts up to its first await
BeginLinkContacts(p, primaryId, secondaryId) ==
    /\ calls[p].pc = "idle"
    /\ calls[p].n < MaxLinks
    /\ calls' = [calls EXCEPT ![p] =
                    [IdleCall EXCEPT !.pc = "lcFind", !.pre = store,
                                     !.n = calls[p].n + 1,
                                     !.primaryId = primaryId,
                                     !.secondaryId = secondaryId]]
    /\ UNCHANGED <<store, now, cache, memory, manager>>

\* linkContacts, lines 167-193: findById(primaryId) and the two checks
LinkFind(p) ==
    /\ calls[p].pc = "lcFind"
    /\ LET c == calls[p]
           primaryContact == findById(store, c.primaryId)
       IN calls' = [calls EXCEPT ![p] =
            IF primaryContact = NoContact
            THEN ThrowError(c, handleServiceOperation(
                    [name |-> "ContactNotFoundError",
                     message |-> "Primary contact with ID "
                                   \o ToString(c.primaryId) \o " not found"],
                    "linkContacts"))
            ELSE IF primaryContact.linkPrecedence # PRIMARY
            THEN ThrowError(c, handleServiceOperation(
                    [name |-> "ContactLinkingError",
                     message |-> "Contact with ID " \o ToString(c.primaryId)
                                   \o " is not a primary contact"],
                    "linkContacts"))
            ELSE [c EXCEPT !.primaryContact = primaryContact,
                           !.pc = "lcUpdate"]]
    /\ UNCHANGED <<store, now, cache, memory, manager>>

\* linkContacts, lines 195-205: repository.update(secondaryId, ...); Prisma
\* rejects the update of a row that is not there
LinkUpdate(p) ==
    /\ calls[p].pc = "lcUpdate"
    /\ LET c == calls[p]
       IN IF c.secondaryId \in DOMAIN store
          THEN /\ store' = update(store, c.secondaryId, c.primaryId,
                                  SECONDARY, now)
               /\ calls' = [calls EXCEPT ![p] = Return(c, NoResponse)]
          ELSE /\ calls' = [calls EXCEPT ![p] =
                     ThrowError(c, handleServiceOperation(
                         handleDatabaseOperation(
                             [name |-> "PrismaClientKnownRequestError",
                              message |-> "Record to update not found."],
                             "updateContactLinking"),
                         "linkContacts"))]
               /\ UNCHANGED store
    /\ UNCHANGED <<now, cache, memory, manager>>

\* the ids a caller may pass: those of the rows, and one no row has
LinkContacts ==
    \E p \in Handlers :
    \E primaryId, secondaryId \in 1..(Len(store) + 1) :
        BeginLinkContacts(p, primaryId, secondaryId)
LinkRead == \E p \in Handlers : LinkFind(p)
LinkWrite == \E p \in Handlers : LinkUpdate(p)

LinkNext ==
    \/ LinkContacts
    \/ LinkRead
    \/ LinkWrite

LinkSpec == CachedInit /\ [][LinkNext]_vars

----------------------------------------------------------------------------
(* GracefulShutdownManager: a shutdown of the running process *)

\* mutant: handleShutdown sets no force exit timer
handleShutdownNoForceTimer(signal) ==
    /\ manager.exitCode = NoExit
    /\ manager.received < MaxSignals
    /\ manager' =
         IF manager.isShuttingDown
         THEN [manager EXCEPT !.received = @ + 1]
         ELSE [manager EXCEPT !.received = @ + 1,
                              !.isShuttingDown = TRUE,
                              !.signal = signal,
                              !.sequences = @ + 1,
                              !.pc = "stopServer",
                              !.gracefulTimer = TRUE,
                              !.server = "closing"]
    /\ UNCHANGED <<store, now, cache, calls, memory>>

\* handleShutdown up to its first await: the guard, the force exit timer,
\* and stopServer up to server.close
handleShutdown(signal) ==
    /\ manager.exitCode = NoExit
    /\ manager.received < MaxSignals
    /\ manager' =
         IF manager.isShuttingDown
         THEN [manager EXCEPT !.received = @ + 1]
         ELSE [manager EXCEPT !.received = @ + 1,
                              !.isShuttingDown = TRUE,
                              !.signal = signal,
                              !.sequences = @ + 1,
                              !.forceTimer = TRUE,
                              !.pc = "stopServer",
                              !.gracefulTimer = TRUE,
                              !.server = "closing"]
    /\ UNCHANGED <<store, now, cache, calls, memory>>

\* the callback of server.close, lines 133-142, and what handleShutdown does
\* when the promise of stopServer settles
ServerCloseCallback(error) ==
    /\ manager.pc = "stopServer"
    /\ manager.server = "closing"
    /\ manager' =
         IF error
         THEN Exit([manager EXCEPT !.server = "failed"], 1)
         ELSE runCleanupFunctions([manager EXCEPT !.server = "closed",
                                                  !.gracefulTimer = FALSE])
    /\ UNCHANGED <<store, now, cache, calls, memory>>

\* the timeout of stopServer, lines 129-131: the promise rejects and the
\* catch of handleShutdown exits
GracefulTimeout ==
    /\ manager.gracefulTimer
    /\ manager.pc = "stopServer"
    /\ manager' = Exit(manager, 1)
    /\ UNCHANGED <<store, now, cache, calls, memory>>

\* cleanup function i returns, resolves, throws or rejects; lines 153-158
\* catch the failure
CleanupSettles(i, failed) ==
    /\ manager.pc = "cleanup"
    /\ manager.cleanups[i] = "running"
    /\ manager' = AllSettled([manager EXCEPT !.cleanups[i] =
                                 IF failed THEN "failed" ELSE "done"])
    /\ UNCHANGED <<store, now, cache, calls, memory>>

\* disconnectDatabase settles, lines 108-116
DisconnectSettles(failed) ==
    /\ manager.pc = "disconnect"
    /\ manager' =
         IF failed
         THEN Exit([manager EXCEPT !.db = "failed"], 1)
         ELSE Exit([manager EXCEPT !.db = "disconnected"], 0)
    /\ UNCHANGED <<store, now, cache, calls, memory>>

\* forceExitTimer fires, lines 93-96
ForceTimeout ==
    /\ manager.forceTimer
    /\ manager.exitCode = NoExit
    /\ manager' = Exit(manager, 1)
    /\ UNCHANGED <<store, now, cache, calls, memory>>

ShutdownInit ==
    /\ store = <<>>
    /\ now = 0
    /\ cache = [k \in CacheKeys |-> NoResponse]
    /\ calls = [p \in {1} |-> IdleCall]
    /\ memory = NewMemoryCache
    /\ manager = NewManager

Signal == \E signal \in Signals : handleShutdown(signal)
ServerCloses == \E error \in BOOLEAN : ServerCloseCallback(error)
CleanupEnds ==
    \E i \in 1..NumCleanups : \E failed \in BOOLEAN : CleanupSettles(i, failed)
DatabaseDisconnects == \E failed \in BOOLEAN : DisconnectSettles(failed)

ShutdownNext ==
    \/ Signal
    \/ ServerCloses
    \/ GracefulTimeout
    \/ CleanupEnds
    \/ DatabaseDisconnects
    \/ ForceTimeout

\* an armed timer fires when it is due; whether server.close calls back, a
\* cleanup function settles or the database disconnects is up to them
ShutdownSpec ==
    /\ ShutdownInit
    /\ [][ShutdownNext]_vars
    /\ WF_vars(GracefulTimeout)
    /\ WF_vars(ForceTimeout)

----------------------------------------------------------------------------
(* Vocabulary of the properties, independent of the engine's own helpers *)

Supplied(v) == v \in Emails \cup Phones
ColumnFor(v) == IF Supplied(v) THEN v ELSE NULL

IsPrimary(st, i) == st[i].linkPrecedence = PRIMARY
PrimaryIds(st) == {i \in DOMAIN st : IsPrimary(st, i)}
\* the primary a row resolves to in zero or one linkedId hop
PrimaryOf(st, i) == IF IsPrimary(st, i) THEN i ELSE st[i].linkedId

HoldsEmail(st, e) == {i \in DOMAIN st : st[i].email = e}
HoldsPhone(st, ph) == {i \in DOMAIN st : st[i].phoneNumber = ph}

Same(row, observation) ==
    /\ row.email = ColumnFor(observation.email)
    /\ row.phoneNumber = ColumnFor(observation.phoneNumber)

Completed(p) == calls[p].pc = "idle" /\ calls[p].status = "ok"
Failed(p) == calls[p].pc = "idle" /\ calls[p].status = "error"

----------------------------------------------------------------------------
(* C1 *)

Overlap(r1, r2) ==
    \/ Supplied(r1.email) /\ r1.email = r2.email
    \/ Supplied(r1.phoneNumber) /\ r1.phoneNumber = r2.phoneNumber

\* the rows of st that hold a value of one of the handlers' observations
Touched(st) ==
    {i \in DOMAIN st : \E p \in Handlers :
        \/ Supplied(calls[p].request.email) /\ st[i].email = calls[p].request.email
        \/ Supplied(calls[p].request.phoneNumber)
              /\ st[i].phoneNumber = calls[p].request.phoneNumber}

\* C1: when all of N >= 2 concurrent identify calls with pairwise overlapping
\* observations have completed, and the table held none of their values when
\* any of them started, exactly one of the rows holding their values is a
\* Primary.
C1_ConcurrentCallsLeaveOnePrimary ==
    ( /\ Cardinality(Handlers) >= 2
      /\ \A p \in Handlers : Completed(p)
      /\ \A p, q \in Handlers : Overlap(calls[p].request, calls[q].request)
      /\ \A p \in Handlers : Touched(calls[p].pre) = {} )
    => Cardinality({i \in Touched(store) : IsPrimary(store, i)}) = 1

----------------------------------------------------------------------------
(* C2 *)

\* C2: after a completed identify(o), a second identify(o) classifies as
\* RETURN_EXISTING whatever order the candidate query returns, and a call
\* classified RETURN_EXISTING has created and updated nothing.
C2_SecondCallIsNoOp ==
    \A p \in Handlers :
        Completed(p) =>
            /\ \A existing \in findByEmailOrPhoneNumber(
                   store, calls[p].request.email, calls[p].request.phoneNumber) :
                  determineContactStrategy(existing, calls[p].request)
                      = RETURN_EXISTING
            /\ calls[p].strategy = RETURN_EXISTING => store = calls[p].pre

\* a repeated call has completed: it was a no-op on a table whose newest row
\* is the one the first call inserted for the same observation
C2_Witness ==
    \E p \in Handlers :
        /\ Completed(p)
        /\ calls[p].strategy = RETURN_EXISTING
        /\ Len(store) >= 2
        /\ Same(store[Len(store)], calls[p].request)
        /\ store = calls[p].pre

----------------------------------------------------------------------------
(* C3 *)

WellLinked(st) ==
    \A i \in DOMAIN st :
        \/ IsPrimary(st, i) /\ st[i].linkedId = NoId
        \/ /\ st[i].linkPrecedence = SECONDARY
           /\ st[i].linkedId \in DOMAIN st
           /\ IsPrimary(st, st[i].linkedId)

\* C3: whenever no call is in progress, every row is a Primary without
\* linkedId or a Secondary whose linkedId names a row that is a Primary, so
\* no Secondary is linked to a Secondary.
C3_NoChains == (Active = {}) => WellLinked(store)

\* a merge has completed that re-pointed a secondary of the losing primary
C3_Witness ==
    \E p \in Handlers :
        /\ Completed(p)
        /\ calls[p].strategy = LINK_EXISTING_PRIMARIES
        /\ \E j \in DOMAIN calls[p].pre :
              /\ calls[p].pre[j].linkPrecedence = SECONDARY
              /\ store[j].linkedId # calls[p].pre[j].linkedId

----------------------------------------------------------------------------
(* C4 *)

\* C4: whenever no call is in progress, no row is older than the Primary it
\* is linked to.
C4_PrimarySeniority ==
    (Active = {}) =>
        \A i \in DOMAIN store :
            (store[i].linkPrecedence = SECONDARY /\ store[i].linkedId \in DOMAIN store)
                => store[store[i].linkedId].createdAt <= store[i].createdAt

\* a merge of two primaries of different age has completed
C4_Witness ==
    \E p \in Handlers :
        /\ Completed(p)
        /\ calls[p].strategy = LINK_EXISTING_PRIMARIES
        /\ \E a, b \in PrimaryIds(calls[p].pre) :
              /\ calls[p].pre[a].createdAt < calls[p].pre[b].createdAt
              /\ store[b].linkedId = a

----------------------------------------------------------------------------
(* C5 *)

\* the observation's email sits in one component and its phone in another
Bridges(st, request) ==
    /\ Supplied(request.email) /\ Supplied(request.phoneNumber)
    /\ \E a \in HoldsEmail(st, request.email) :
       \E b \in HoldsPhone(st, request.phoneNumber) :
            PrimaryOf(st, a) # PrimaryOf(st, b)
    /\ \A i \in DOMAIN st : ~Same(st[i], request)

\* C5: a completed call whose observation bridged two components (through
\* Primaries or Secondaries, no exact match) was classified
\* LINK_EXISTING_PRIMARIES and has left all rows holding its email or its
\* phone in one component.
C5_BridgingObservationMerges ==
    \A p \in Handlers :
        (Completed(p) /\ WellLinked(calls[p].pre) /\ Bridges(calls[p].pre, calls[p].request))
        => /\ calls[p].strategy = LINK_EXISTING_PRIMARIES
           /\ \A a \in HoldsEmail(store, calls[p].request.email) :
              \A b \in HoldsPhone(store, calls[p].request.phoneNumber) :
                   PrimaryOf(store, a) = PrimaryOf(store, b)

----------------------------------------------------------------------------
(* C6 *)

\* C6: when a repository call fails during CREATE_SECONDARY or
\* LINK_EXISTING_PRIMARIES, the table is what it was before the call.
C6_FailedCallLeavesNoTrace ==
    \A p \in Handlers :
        ( /\ Failed(p)
          /\ calls[p].error = "Database operation failed"
          /\ calls[p].strategy \in {CREATE_SECONDARY, LINK_EXISTING_PRIMARIES} )
        => store = calls[p].pre

----------------------------------------------------------------------------
(* C7 *)

BothAbsent(request) ==
    request.email \in {UNDEFINED, EMPTY} /\ request.phoneNumber \in {UNDEFINED, EMPTY}

\* C7: a call whose observation has neither email nor phone throws the
\* validation error in the step that starts it, so it never waits for a
\* repository call, and that step leaves the table and the result cache
\* unchanged.
C7_InvalidObservationRejected ==
    [][\A p \in Handlers :
          ( /\ calls[p].pc = "idle"
            /\ calls'[p] # calls[p]
            /\ BothAbsent(calls'[p].request) )
          => /\ calls'[p].pc = "idle"
             /\ calls'[p].status = "error"
             /\ calls'[p].error = "Either email or phoneNumber must be provided"
             /\ store' = store
             /\ cache' = cache]_vars

\* an invalid call was rejected on a table with rows and a filled cache
C7_Witness ==
    \E p \in Handlers :
        /\ Failed(p)
        /\ BothAbsent(calls[p].request)
        /\ calls[p].request.email = EMPTY
        /\ store # <<>>
        /\ store = calls[p].pre
        /\ \E k \in CacheKeys : cache[k] # NoResponse

----------------------------------------------------------------------------
(* C8 *)

ExactIn(candidates, request) ==
    \E i \in DOMAIN candidates : Same(candidates[i], request)

PrimariesIn(candidates) ==
    {i \in DOMAIN candidates : candidates[i].linkPrecedence = PRIMARY}

Classified(p) == calls[p].strategy # NO_STRATEGY

\* C8: the strategy of every classified call is CREATE_NEW_PRIMARY iff there
\* are no candidates; otherwise RETURN_EXISTING iff a candidate matches the
\* observation exactly; otherwise LINK_EXISTING_PRIMARIES iff more than one
\* candidate is a Primary; otherwise CREATE_SECONDARY.
C8_DecisionOrder ==
    \A p \in Handlers :
        Classified(p) =>
            LET candidates == calls[p].existingContacts
                request == calls[p].request
            IN calls[p].strategy =
                 IF candidates = <<>> THEN CREATE_NEW_PRIMARY
                 ELSE IF ExactIn(candidates, request) THEN RETURN_EXISTING
                 ELSE IF Cardinality(PrimariesIn(candidates)) > 1
                      THEN LINK_EXISTING_PRIMARIES
                 ELSE CREATE_SECONDARY

\* an exact match among candidates that hold two Primaries
C8_Witness ==
    \E p \in Handlers :
        /\ calls[p].strategy = RETURN_EXISTING
        /\ Cardinality(PrimariesIn(calls[p].existingContacts)) > 1

----------------------------------------------------------------------------
(* C9 *)

\* the Primary among the candidates with the earliest createdAt, the lowest
\* id among equals
Senior(candidates) ==
    LET ps == {candidates[i] : i \in PrimariesIn(candidates)}
    IN CHOOSE x \in ps : \A y \in ps :
          \/ x.createdAt < y.createdAt
          \/ x.createdAt = y.createdAt /\ x.id <= y.id

\* C9: in LINK_EXISTING_PRIMARIES the surviving primary is the candidate
\* Primary with the earliest createdAt, the lowest id among equals, and the
\* response names it as primaryContactId.
C9_SeniorPrimarySurvives ==
    \A p \in Handlers :
        (calls[p].strategy = LINK_EXISTING_PRIMARIES /\ calls[p].status # "error")
        => /\ calls[p].primaryContact.id = Senior(calls[p].existingContacts).id
           /\ Completed(p) => calls[p].response.primaryContactId
                                  = Senior(calls[p].existingContacts).id

----------------------------------------------------------------------------
(* C10 *)

\* C10: a completed LINK_EXISTING_PRIMARIES leaves exactly one of the
\* candidate Primaries a Primary (the survivor); every other candidate
\* Primary and every former Secondary of one is a Secondary linked to the
\* survivor; one row is appended, a Secondary of the survivor with the
\* observation's fields; every other row is unchanged, and no row's id,
\* email, phone or createdAt differs.
C10_MergeFrame ==
    \A p \in Handlers :
        (Completed(p) /\ calls[p].strategy = LINK_EXISTING_PRIMARIES) =>
            LET pre == calls[p].pre
                cands == {calls[p].existingContacts[i].id :
                             i \in PrimariesIn(calls[p].existingContacts)}
                survivors == {i \in cands : IsPrimary(store, i)}
            IN /\ Cardinality(survivors) = 1
               /\ Len(store) = Len(pre) + 1
               /\ \A s \in survivors :
                    LET losers == cands \ {s}
                        moved == losers \cup
                                 {j \in DOMAIN pre : pre[j].linkedId \in losers}
                    IN /\ \A j \in moved :
                            /\ store[j].linkPrecedence = SECONDARY
                            /\ store[j].linkedId = s
                       /\ \A j \in DOMAIN pre \ moved : store[j] = pre[j]
                       /\ store[Len(store)].linkPrecedence = SECONDARY
                       /\ store[Len(store)].linkedId = s
                       /\ Same(store[Len(store)], calls[p].request)
               /\ \A j \in DOMAIN pre :
                    /\ store[j].id = pre[j].id
                    /\ store[j].email = pre[j].email
                    /\ store[j].phoneNumber = pre[j].phoneNumber
                    /\ store[j].createdAt = pre[j].createdAt

\* a merge has completed whose losing primary had a secondary of its own,
\* beside a component that took no part
C10_Witness ==
    \E p \in Handlers :
        /\ Completed(p)
        /\ calls[p].strategy = LINK_EXISTING_PRIMARIES
        /\ Len(calls[p].pre) >= 3
        /\ \E j \in DOMAIN calls[p].pre :
              /\ calls[p].pre[j].linkPrecedence = SECONDARY
              /\ ~IsPrimary(store, calls[p].pre[j].linkedId)

----------------------------------------------------------------------------
(* C11 *)

\* no row of st holds a value the observation supplies
NoneHeld(st, observation) ==
    \A i \in DOMAIN st :
        /\ ~(Supplied(observation.email) /\ st[i].email = observation.email)
        /\ ~(Supplied(observation.phoneNumber)
               /\ st[i].phoneNumber = observation.phoneNumber)

\* C11: a completed call whose observation matched no row of the table it
\* started on has appended exactly one row, with the observation's email and
\* phone (null for an absent field), Primary, without linkedId; has left
\* every earlier row as it was; and its response names the new row as
\* primaryContactId with no secondaryContactIds.
C11_NewIdentityFrame ==
    \A p \in Handlers :
        (Completed(p) /\ NoneHeld(calls[p].pre, calls[p].request)) =>
            /\ Len(store) = Len(calls[p].pre) + 1
            /\ SubSeq(store, 1, Len(calls[p].pre)) = calls[p].pre
            /\ Same(store[Len(store)], calls[p].request)
            /\ store[Len(store)].linkPrecedence = PRIMARY
            /\ store[Len(store)].linkedId = NoId
            /\ calls[p].response.primaryContactId = store[Len(store)].id
            /\ calls[p].response.secondaryContactIds = <<>>

\* a new identity with an absent phone was created beside earlier rows
C11_Witness ==
    \E p \in Handlers :
        /\ Completed(p)
        /\ NoneHeld(calls[p].pre, calls[p].request)
        /\ calls[p].pre # <<>>
        /\ ~Supplied(calls[p].request.phoneNumber)
        /\ store[Len(store)].phoneNumber = NULL
        /\ store[Len(store)].linkPrecedence = PRIMARY

----------------------------------------------------------------------------
(* C12 *)

\* C12: a completed call classified RETURN_EXISTING has created and updated
\* nothing, and the primaryContactId of its response is the Primary that the
\* row matching the observation exactly is, or is linked to.
C12_NoOpReturnsMatchedComponent ==
    \A p \in Handlers :
        (Completed(p) /\ calls[p].strategy = RETURN_EXISTING) =>
            /\ store = calls[p].pre
            /\ \E i \in DOMAIN store :
                  /\ Same(store[i], calls[p].request)
                  /\ calls[p].response.primaryContactId = PrimaryOf(store, i)

----------------------------------------------------------------------------
(* C13 *)

\* the ids a new Secondary may be linked to: the Primaries among the
\* candidates or, when the candidates are all Secondaries, the rows they are
\* linked to
ComponentPrimaries(candidates) ==
    IF PrimariesIn(candidates) # {}
    THEN {candidates[i].id : i \in PrimariesIn(candidates)}
    ELSE {candidates[i].linkedId : i \in DOMAIN candidates}

\* the ids of the rows of st linked to primary
LinkedTo(st, primary) == {i \in DOMAIN st : st[i].linkedId = primary}

\* C13: a completed call classified CREATE_SECONDARY has appended exactly one
\* row, with the observation's fields, Secondary, linked to the Primary of
\* the candidates' component (the Primary among the candidates or, when all
\* candidates are Secondaries, the Primary they are linked to); has left
\* every earlier row as it was; and its response is that Primary's
\* component, the new row included.
C13_ExtendFrame ==
    \A p \in Handlers :
        (Completed(p) /\ calls[p].strategy = CREATE_SECONDARY) =>
            LET pre == calls[p].pre
                new == store[Len(store)]
            IN /\ Len(store) = Len(pre) + 1
               /\ SubSeq(store, 1, Len(pre)) = pre
               /\ Same(new, calls[p].request)
               /\ new.linkPrecedence = SECONDARY
               /\ new.linkedId \in ComponentPrimaries(calls[p].existingContacts)
               /\ new.linkedId \in PrimaryIds(store)
               /\ calls[p].response.primaryContactId = new.linkedId
               /\ Range(calls[p].response.secondaryContactIds)
                     = LinkedTo(store, new.linkedId)
               /\ new.id \in Range(calls[p].response.secondaryContactIds)

\* an extension whose candidates were all Secondaries
C13_Witness ==
    \E p \in Handlers :
        /\ Completed(p)
        /\ calls[p].strategy = CREATE_SECONDARY
        /\ calls[p].existingContacts # <<>>
        /\ PrimariesIn(calls[p].existingContacts) = {}
        /\ store[Len(store)].linkedId \in PrimaryIds(store)

----------------------------------------------------------------------------
(* C14 *)

\* the values of one column over the component of primary: the Primary's own
\* first, then those of the rows linked to it by ascending id, each once
RECURSIVE InIdOrder(_, _, _, _, _)
InIdOrder(st, primary, field, i, acc) ==
    IF i > Len(st) THEN acc
    ELSE LET v == st[i][field]
             fresh == /\ i # primary
                      /\ st[i].linkedId = primary
                      /\ Supplied(v)
                      /\ \A k \in DOMAIN acc : acc[k] # v
         IN InIdOrder(st, primary, field, i + 1,
                      IF fresh THEN Append(acc, v) ELSE acc)

ViewValues(st, primary, field) ==
    InIdOrder(st, primary, field, 1,
              IF Supplied(st[primary][field]) THEN <<st[primary][field]>>
              ELSE <<>>)

\* C14: the emails of a completed call's response are the non-null emails of
\* the component it names, each once, the Primary's own first and then the
\* others in order of first occurrence among the Secondaries by ascending id;
\* likewise the phoneNumbers.
C14_ViewValuesInIdOrder ==
    \A p \in Handlers :
        Completed(p) =>
            LET primary == calls[p].response.primaryContactId
            IN /\ calls[p].response.emails = ViewValues(store, primary, "email")
               /\ calls[p].response.phoneNumbers
                     = ViewValues(store, primary, "phoneNumber")

----------------------------------------------------------------------------
(* C15 *)

RECURSIVE Ascending(_)
Ascending(S) ==
    IF S = {} THEN <<>>
    ELSE LET least == CHOOSE x \in S : \A y \in S : x <= y
         IN <<least>> \o Ascending(S \ {least})

\* C15: the secondaryContactIds of a completed call's response are the ids of
\* all rows linked to the Primary it names, each once, in ascending order,
\* the Primary's own id not among them.
C15_SecondaryIdsAscending ==
    \A p \in Handlers :
        Completed(p) =>
            LET primary == calls[p].response.primaryContactId
            IN /\ calls[p].response.secondaryContactIds
                     = Ascending(LinkedTo(store, primary))
               /\ primary \notin Range(calls[p].response.secondaryContactIds)

----------------------------------------------------------------------------
(* C16 *)

\* C16: the response of every completed call, calls being run one at a time,
\* has the observation's email among its emails and the observation's phone
\* among its phoneNumbers when they were supplied, and its primaryContactId
\* is a Primary, the one of the component that holds the row with the
\* observation's values.
C16_ResponseCoversObservation ==
    \A p \in Handlers :
        Completed(p) =>
            LET request == calls[p].request
                response == calls[p].response
            IN /\ Supplied(request.email) => request.email \in Range(response.emails)
               /\ Supplied(request.phoneNumber)
                     => request.phoneNumber \in Range(response.phoneNumbers)
               /\ response.primaryContactId \in PrimaryIds(store)
               /\ \E i \in DOMAIN store :
                     /\ Same(store[i], request)
                     /\ PrimaryOf(store, i) = response.primaryContactId

----------------------------------------------------------------------------
(* C17 *)

\* C17: when a repository call made during identifyContact rejects with an
\* error, the call throws that same error, of the same class and with the
\* same message, and neither the failing step nor the failed call afterwards
\* writes to the table.
C17_StoreErrorPropagatesUnchanged ==
    [][\A p \in Handlers :
          /\ ( /\ calls[p].pc \in AtRepositoryCall
               /\ calls'[p].status = "error"
               /\ calls'[p].cause # NoError )
             => /\ calls'[p].errorName = calls'[p].cause.name
                /\ calls'[p].error = calls'[p].cause.message
                /\ store' = store
          /\ (Failed(p) /\ calls'[p] = calls[p]) => store' = store]_vars

----------------------------------------------------------------------------
(* C18 *)

\* the Primaries of st that hold a value of the observation
MergingPrimaries(st, observation) ==
    {i \in PrimaryIds(st) :
        \/ Supplied(observation.email) /\ st[i].email = observation.email
        \/ Supplied(observation.phoneNumber)
              /\ st[i].phoneNumber = observation.phoneNumber}

\* on st the observation calls for a merge: no row matches it exactly and
\* more than one Primary holds one of its values
CallsForMerge(st, observation) ==
    /\ \A i \in DOMAIN st : ~Same(st[i], observation)
    /\ Cardinality(MergingPrimaries(st, observation)) > 1

\* C18: when a call that was to merge two components failed on a repository
\* error and the caller re-ran it with the same observation until it
\* completed, the rows of the two components and the rows added since form
\* one component: exactly one of them is a Primary and every other one is a
\* Secondary linked to that Primary.
C18_RerunCompletesMerge ==
    \A p \in Handlers :
        ( /\ Completed(p)
          /\ calls[p].attempt > 0
          /\ CallsForMerge(calls[p].origin, calls[p].request) )
        => LET origin == calls[p].origin
               members ==
                  {j \in DOMAIN store :
                      \/ j > Len(origin)
                      \/ PrimaryOf(origin, j)
                            \in MergingPrimaries(origin, calls[p].request)}
           IN \E s \in members :
                 /\ IsPrimary(store, s)
                 /\ \A j \in members \ {s} :
                       /\ store[j].linkPrecedence = SECONDARY
                       /\ store[j].linkedId = s

----------------------------------------------------------------------------
(* C19 *)

\* st holds an older Primary a with the observation's email and a newer
\* Primary b with its phone
OlderAndNewer(st, observation, a, b) ==
    /\ a \in PrimaryIds(st) /\ b \in PrimaryIds(st)
    /\ Supplied(observation.email) /\ st[a].email = observation.email
    /\ Supplied(observation.phoneNumber)
    /\ st[b].phoneNumber = observation.phoneNumber
    /\ st[a].createdAt < st[b].createdAt

\* C19: when concurrent calls that all carry the email of an older Primary a
\* and the phone of a newer Primary b have all completed, then among the
\* rows that were linked to a or b and the rows added since, a is the only
\* Primary and every other row is a Secondary linked to a.
C19_ConcurrentMergeLeavesSenior ==
    ( /\ Cardinality(Handlers) >= 2
      /\ \A p \in Handlers : Completed(p)
      /\ \A p, q \in Handlers : calls[p].request = calls[q].request )
    => \A p \in Handlers :
       \A a, b \in DOMAIN calls[p].pre :
          ( /\ WellLinked(calls[p].pre)
            /\ \A q \in Handlers : Len(calls[p].pre) <= Len(calls[q].pre)
            /\ OlderAndNewer(calls[p].pre, calls[p].request, a, b) )
          => LET members == {j \in DOMAIN store :
                                \/ j > Len(calls[p].pre)
                                \/ PrimaryOf(calls[p].pre, j) \in {a, b}}
             IN /\ IsPrimary(store, a)
                /\ \A j \in members \ {a} :
                      /\ store[j].linkPrecedence = SECONDARY
                      /\ store[j].linkedId = a

\* two calls with the same observation both ran the merge of a Primary that
\* had a Secondary of its own
C19_Witness ==
    /\ \A p \in Handlers : Completed(p)
    /\ \A p \in Handlers : calls[p].strategy = LINK_EXISTING_PRIMARIES
    /\ \A p, q \in Handlers : calls[p].request = calls[q].request
    /\ \E p \in Handlers : \E a, b \in DOMAIN calls[p].pre :
          /\ OlderAndNewer(calls[p].pre, calls[p].request, a, b)
          /\ LinkedTo(calls[p].pre, b) # {}
    /\ Cardinality(Handlers) >= 2

----------------------------------------------------------------------------
(* C20 *)

\* the non-null values of one column over the rows ids of st
ValuesOf(st, ids, field) == {st[i][field] : i \in ids} \ {NULL}

\* response is the view of a component of st as st is now
IsCurrentView(st, response) ==
    LET primary == response.primaryContactId
        component == {primary} \cup LinkedTo(st, primary)
    IN /\ primary \in PrimaryIds(st)
       /\ Range(response.secondaryContactIds) = LinkedTo(st, primary)
       /\ Range(response.emails) = ValuesOf(st, component, "email")
       /\ Range(response.phoneNumbers) = ValuesOf(st, component, "phoneNumber")

\* C20: the response of every completed call of the caching service is the
\* view of a component as the table is when the call returns: once a call
\* has inserted, demoted or re-pointed a row, no later call returns a
\* response that was cached before that write.
C20_NoStaleResponse ==
    \A p \in Handlers :
        ( /\ Completed(p)
          /\ calls[p].request.email \in Emails \cup {UNDEFINED}
          /\ calls[p].request.phoneNumber \in Phones \cup {UNDEFINED} )
        => IsCurrentView(store, calls[p].response)

----------------------------------------------------------------------------
\* C21: when set is called on a full cache, the entry it removes is the
\* least recently used one: no entry the cache held was set or returned by
\* get longer ago than the removed one
C21_EvictsLeastRecentlyUsed ==
    memory.evicted # NoKey =>
        \A i \in DOMAIN memory.before :
            memory.usedBefore[memory.evicted]
                <= memory.usedBefore[memory.before[i].key]

----------------------------------------------------------------------------
\* C29: whatever set, get, delete and clear calls are made and whatever the
\* clock reads, the cache never holds more than maxSize entries
C29_SizeWithinMaxSize == Len(memory.cache) <= MaxSize

----------------------------------------------------------------------------
(* C22 *)

\* an observation with an email or a phone, not both
OneSided(observation) ==
    Supplied(observation.email) # Supplied(observation.phoneNumber)

\* the rows that hold the one value of a one-sided observation
Holders(st, observation) ==
    IF Supplied(observation.email)
    THEN HoldsEmail(st, observation.email)
    ELSE HoldsPhone(st, observation.phoneNumber)

\* C22: for a completed call with an email and no phone (or a phone and no
\* email) the exact match is a row with that value and null in the other
\* column, and nothing else: with such a row the call is RETURN_EXISTING and
\* writes nothing; with rows holding the value that all carry the other
\* field too it is CREATE_SECONDARY and appends one Secondary with the value
\* and null; either way the table then has the row that makes an identical
\* call RETURN_EXISTING.
C22_AbsentFieldMatchesNullOnly ==
    \A p \in Handlers :
        (Completed(p) /\ OneSided(calls[p].request)) =>
            LET pre == calls[p].pre
                request == calls[p].request
                held == Holders(pre, request)
                exact == {i \in held : Same(pre[i], request)}
            IN /\ calls[p].strategy = RETURN_EXISTING <=> exact # {}
               /\ exact # {} => store = pre
               /\ (held # {} /\ exact = {}) =>
                     /\ calls[p].strategy = CREATE_SECONDARY
                     /\ Len(store) = Len(pre) + 1
                     /\ SubSeq(store, 1, Len(pre)) = pre
                     /\ Same(store[Len(store)], request)
                     /\ store[Len(store)].linkPrecedence = SECONDARY
               /\ \E i \in DOMAIN store : Same(store[i], request)

\* the identical call after such an extension: a no-op whose exact match is
\* the Secondary the first call appended, every other holder carrying both
\* fields
C22_Witness ==
    \E p \in Handlers :
        /\ Completed(p)
        /\ OneSided(calls[p].request)
        /\ calls[p].strategy = RETURN_EXISTING
        /\ store = calls[p].pre
        /\ Cardinality(Holders(store, calls[p].request)) >= 2
        /\ \A i \in Holders(store, calls[p].request) :
              Same(store[i], calls[p].request) =>
                  /\ i = Len(store)
                  /\ store[i].linkPrecedence = SECONDARY

----------------------------------------------------------------------------
(* C23 *)

\* the candidate names, in table st, a row that is there, not deleted and
\* Primary
ResolvesPrimary(st, candidate) ==
    /\ candidate.linkedId \in DOMAIN st
    /\ st[candidate.linkedId].deletedAt = NoTime
    /\ st[candidate.linkedId].linkPrecedence = PRIMARY

\* C23: a call classified CREATE_SECONDARY or RETURN_EXISTING whose
\* candidates hold no Primary and none of whose candidates is linked to a
\* Primary that is not deleted, and none of whose repository calls failed,
\* ends with the error 'No primary contact found in the contact chain' and
\* leaves the table as it found it.
C23_NoPrimaryInChainFails ==
    \A p \in Handlers :
        LET c == calls[p]
        IN (/\ c.pc = "idle"
            /\ c.status \in {"ok", "error"}
            /\ c.cause = NoError
            /\ c.strategy \in {CREATE_SECONDARY, RETURN_EXISTING}
            /\ PrimariesIn(c.existingContacts) = {}
            /\ \A i \in DOMAIN c.existingContacts :
                  ~ResolvesPrimary(c.pre, c.existingContacts[i]))
           => /\ c.status = "error"
              /\ c.error = "No primary contact found in the contact chain"
              /\ store = c.pre

----------------------------------------------------------------------------
(* C24 *)

\* call p merged and demoted row d, which call q had read as a Primary
DemotedUnder(p, q, d) ==
    /\ calls[p].strategy = LINK_EXISTING_PRIMARIES
    /\ d # calls[p].primaryContact.id
    /\ \E i \in DOMAIN calls[p].existingContacts :
          /\ calls[p].existingContacts[i].id = d
          /\ calls[p].existingContacts[i].linkPrecedence = PRIMARY
    /\ \E i \in DOMAIN calls[q].existingContacts :
          /\ calls[q].existingContacts[i].id = d
          /\ calls[q].existingContacts[i].linkPrecedence = PRIMARY
    /\ store[d].linkPrecedence = SECONDARY

\* C24: when a call that merged and demoted a Primary and another call that
\* had read that row while it was Primary have both completed, every
\* linkedId in the table names a Primary.
C24_ConcurrentDemotionLinksToPrimary ==
    \A p, q \in Handlers :
        (/\ p # q
         /\ Completed(p)
         /\ Completed(q)
         /\ \E d \in DOMAIN store : DemotedUnder(p, q, d))
        => \A i \in DOMAIN store :
              store[i].linkedId # NoId => IsPrimary(store, store[i].linkedId)

----------------------------------------------------------------------------
(* C25 *)

\* the Primaries among the candidates of call p that its merge does not keep
LosingPrimaries(p) ==
    IF calls[p].strategy # LINK_EXISTING_PRIMARIES THEN {}
    ELSE {calls[p].existingContacts[i].id : i \in PrimariesIn(calls[p].existingContacts)}
            \ {calls[p].primaryContact.id}

\* C25: in every step the table keeps every row it had, with the same id,
\* email, phone, createdAt and deletedAt; a row's precedence changes only
\* from Primary to Secondary; and a row's linkedId changes only in a step of
\* a merging call of which the row itself, or the Primary it was linked to,
\* is a losing Primary.
C25_RecordLifeMonotone ==
    [][/\ Len(store') >= Len(store)
       /\ \A i \in DOMAIN store :
             /\ store'[i].id = store[i].id
             /\ store'[i].email = store[i].email
             /\ store'[i].phoneNumber = store[i].phoneNumber
             /\ store'[i].createdAt = store[i].createdAt
             /\ store'[i].deletedAt = store[i].deletedAt
             /\ store'[i].linkPrecedence # store[i].linkPrecedence =>
                   /\ store[i].linkPrecedence = PRIMARY
                   /\ store'[i].linkPrecedence = SECONDARY
             /\ store'[i].linkedId # store[i].linkedId =>
                   \E p \in Handlers :
                       /\ calls'[p] # calls[p]
                       /\ \/ i \in LosingPrimaries(p)
                          \/ store[i].linkedId \in LosingPrimaries(p)]_vars

\* a merge has completed in which one row went from Primary to Secondary and
\* a Secondary of it was re-pointed, every other field of both as before
C25_Witness ==
    \E p \in Handlers :
        /\ Completed(p)
        /\ \E i, j \in DOMAIN calls[p].pre :
              /\ calls[p].pre[i].linkPrecedence = PRIMARY
              /\ store[i].linkPrecedence = SECONDARY
              /\ calls[p].pre[j].linkedId = i
              /\ store[j].linkedId = store[i].linkedId
              /\ store[i].createdAt = calls[p].pre[i].createdAt
              /\ store[j].createdAt = calls[p].pre[j].createdAt

----------------------------------------------------------------------------
(* C26 *)

Exited == manager.exitCode # NoExit

\* C26: once a shutdown has begun the process exits, whatever server.close,
\* the cleanup functions and the database disconnect do or fail to do; it
\* exits with code 0 only when the server has closed and the database has
\* disconnected without error; a cleanup function that has failed leaves no
\* other cleanup function unstarted, and once all have settled the database
\* disconnect has been called; and however many signals arrive, one shutdown
\* sequence is started.
C26_ShutdownExits ==
    /\ manager.isShuttingDown ~> Exited
    /\ [](manager.exitCode = 0 =>
             manager.server = "closed" /\ manager.db = "disconnected")
    /\ []((\E i \in DOMAIN manager.cleanups : manager.cleanups[i] = "failed")
             => /\ \A j \in DOMAIN manager.cleanups :
                      manager.cleanups[j] # "idle"
                /\ (\A j \in DOMAIN manager.cleanups :
                        manager.cleanups[j] \in {"done", "failed"})
                      => manager.db # "connected")
    /\ [](manager.sequences <= 1)

\* the force exit: the server closed, one cleanup function failed, another
\* never settled, a second signal came in and was ignored, the process
\* exited with code 1
C26_Witness ==
    /\ manager.exitCode = 1
    /\ manager.server = "closed"
    /\ \E i, j \in DOMAIN manager.cleanups :
          manager.cleanups[i] = "failed" /\ manager.cleanups[j] = "running"
    /\ manager.received >= 2
    /\ manager.sequences = 1

----------------------------------------------------------------------------
(* C27 *)

\* C27: when no call is under way, two rows with the same email or the same
\* phone resolve to the same Primary.
C27_ValueInOneComponent ==
    (\A p \in Handlers : calls[p].pc = "idle") =>
        \A i, j \in DOMAIN store :
            (\/ Supplied(store[i].email) /\ store[i].email = store[j].email
             \/ /\ Supplied(store[i].phoneNumber)
                /\ store[i].phoneNumber = store[j].phoneNumber)
            => PrimaryOf(store, i) = PrimaryOf(store, j)

----------------------------------------------------------------------------
(* C28 *)

\* C28: no two rows of the table hold the same (email, phone) pair.
C28_NoDuplicatePair ==
    \A i, j \in DOMAIN store :
        (/\ store[i].email = store[j].email
         /\ store[i].phoneNumber = store[j].phoneNumber) => i = j

----------------------------------------------------------------------------
(* C30 *)

\* no Secondary is older than the Primary it is linked to
PrimaryEarliest(st) ==
    \A i \in DOMAIN st :
        (st[i].linkPrecedence = SECONDARY /\ st[i].linkedId \in DOMAIN st)
            => st[st[i].linkedId].createdAt <= st[i].createdAt

\* C30: a linkContacts call whose primaryId names no row, or a row that is
\* not Primary, fails and leaves the table as it was; one that succeeds on a
\* table in which every linkedId names a Primary and no Secondary is older
\* than its Primary leaves a table of which both are still true.
C30_LinkContactsKeepsInvariants ==
    \A p \in Handlers :
        LET c == calls[p]
        IN (c.pc = "idle" /\ c.primaryId # NoId) =>
              /\ (\/ c.primaryId \notin DOMAIN c.pre
                  \/ c.pre[c.primaryId].linkPrecedence # PRIMARY)
                    => c.status = "error" /\ store = c.pre
              /\ (/\ c.status = "ok"
                  /\ WellLinked(c.pre)
                  /\ PrimaryEarliest(c.pre))
                    => WellLinked(store) /\ PrimaryEarliest(store)

====
